---- MODULE Spec2Model ----
(***************************************************************************)
(* Model of zsh-llm-debugger: the tool dispatcher, the run controller and  *)
(* the stream sink of llm_debugger.py (OpenAI Assistants, event-pushed and *)
(* polled) and of ollama_debugger.py (two-call chat).                      *)
(*                                                                         *)
(* Text is a sequence of atoms.  An atom is one character that matters to  *)
(* the shell (" ", ";", "'", the double quote) or an opaque run of         *)
(* characters that are all safe for shlex.quote ("a", "ls", ...).          *)
(***************************************************************************)
EXTENDS Integers, Sequences, FiniteSets, TLC

VARIABLES
    adapter,      \* "openai" | "ollama": whose dispatcher is used
    request,      \* the dispatcher on its own: the request
    result,       \* the dispatcher on its own: what dispatch returned
    variant,      \* "stream" (main/initiate_run) | "poll" (monitor_run)
                  \* | "ollama" (run) | "dispatch"
    pc,           \* where the controller is
    exit_status,  \* exit status of the user's command (-1: not run yet)
    exitCode,     \* exit code of the process (-1: still running)
    status,       \* the run's status at the engine ("none": no run)
    observed,     \* monitor_run's run.status, as last retrieved
    stack,        \* the active calls that handle a batch or a stream, innermost last
    pipe,         \* the frames written to the FIFO, in order
    received,     \* the tool-call batches handed to the controller: their call ids
    submitted,    \* the result lists sent back to the engine: their call ids
    dispatched,   \* the call ids dispatched, in order
    spawned,      \* child processes started by tool calls
    nEvents,      \* text and message events delivered so far
    chats,        \* chat requests issued (ollama)
    pipeFailed,   \* an open of the FIFO or a write to it has failed
    reported,     \* the run status printed for the caller ("none": nothing printed)
    runs,         \* runs created at the engine by this process
    raised,       \* the exception that left the controller ("none": none did)
    delivered,    \* the text-delta and message-completed events delivered to
                  \* handlers, in order, each with whether its write succeeded
    fifoPath,     \* what is at FIFO_PATH: "absent" | "fifo" (made by the
                  \* consumer) | "file"
    finalRead     \* monitor_run has read the final message of the thread

dispatchVars == <<adapter, request, result>>

mainVars == <<exit_status, exitCode>>

runVars == <<status, observed, stack, pipe, received, submitted, dispatched,
             spawned, nEvents, chats, pipeFailed, reported, runs, raised,
             delivered, fifoPath, finalRead>>

vars == <<adapter, request, result, variant, pc, exit_status, exitCode, status,
          observed, stack, pipe, received, submitted, dispatched,
          spawned, nEvents, chats, pipeFailed, reported, runs, raised,
          delivered, fifoPath, finalRead>>

(***************************************************************************)
(* Bounds of the model.                                                    *)
(***************************************************************************)
MaxStrLen == 2

\* what the engine produces in one run: text and message events plus
\* tool calls asked for
MaxWork == 4

(***************************************************************************)
(* Text and JSON values.                                                   *)
(***************************************************************************)
SQ == "'"

DQ == "\""

Chars == {"a", " ", ";", SQ}

Strings == UNION {[1..n -> Chars] : n \in 0..MaxStrLen}

JAbsent == [t |-> "absent", v |-> <<>>]

JNum == [t |-> "num", v |-> <<>>]

JStr(s) == [t |-> "str", v |-> s]

JList(l) == [t |-> "list", v |-> l]

IsStr(j) == j.t = "str"

IsStrList(j) == j.t = "list" /\ \A i \in 1..Len(j.v) : IsStr(j.v[i])

RECURSIVE Concat(_)
Concat(ss) == IF ss = <<>> THEN <<>> ELSE Head(ss) \o Concat(Tail(ss))

\* str.join: sep between consecutive items
RECURSIVE Join(_, _)
Join(sep, ss) ==
    IF ss = <<>> THEN <<>>
    ELSE IF Len(ss) = 1 THEN Head(ss)
    ELSE Head(ss) \o sep \o Join(sep, Tail(ss))

(***************************************************************************)
(* shlex.quote, and the word splitting of the shell that runs a command    *)
(* line (subprocess.run(command, shell=True, executable='/bin/zsh')).      *)
(***************************************************************************)
UnsafeChars == {" ", ";", SQ, DQ}

RECURSIVE EscapeSQ(_)
EscapeSQ(s) ==
    IF s = <<>> THEN <<>>
    ELSE (IF Head(s) = SQ THEN <<SQ, DQ, SQ, DQ, SQ>> ELSE <<Head(s)>>)
         \o EscapeSQ(Tail(s))

\* shlex.quote(s): '' for the empty string, s itself when every character is
\* safe, else s in single quotes with each ' written as '"'"'
shlex_quote(s) ==
    IF s = <<>> THEN <<SQ, SQ>>
    ELSE IF \A i \in 1..Len(s) : s[i] \notin UnsafeChars THEN s
    ELSE <<SQ>> \o EscapeSQ(s) \o <<SQ>>

ShInit == [mode |-> "n", word |-> <<>>, inword |-> FALSE,
           argv |-> <<>>, cmds |-> <<>>]

ShEndWord(st) ==
    IF st.inword
    THEN [st EXCEPT !.argv = Append(st.argv, st.word), !.word = <<>>,
                    !.inword = FALSE]
    ELSE st

ShEndCmd(st) ==
    LET w == ShEndWord(st)
    IN  IF w.argv = <<>> THEN w
        ELSE [w EXCEPT !.cmds = Append(w.cmds, w.argv), !.argv = <<>>]

ShStep(st, c) ==
    IF st.mode = "n"
    THEN CASE c = " " -> ShEndWord(st)
           [] c = ";" -> ShEndCmd(st)
           [] c = SQ  -> [st EXCEPT !.mode = "sq", !.inword = TRUE]
           [] c = DQ  -> [st EXCEPT !.mode = "dq", !.inword = TRUE]
           [] OTHER   -> [st EXCEPT !.word = Append(st.word, c), !.inword = TRUE]
    ELSE IF (st.mode = "sq" /\ c = SQ) \/ (st.mode = "dq" /\ c = DQ)
    THEN [st EXCEPT !.mode = "n"]
    ELSE [st EXCEPT !.word = Append(st.word, c)]

RECURSIVE ShScan(_, _)
ShScan(st, s) == IF s = <<>> THEN st ELSE ShScan(ShStep(st, Head(s)), Tail(s))

NoExec == [ran |-> FALSE, ok |-> TRUE, cmds |-> <<>>]

\* What the shell makes of a command line: the simple commands it runs, each
\* a list of literal words; an unterminated quote is a parse error.
ShParse(command) ==
    LET st == ShScan(ShInit, command)
    IN  IF st.mode # "n" THEN [ran |-> TRUE, ok |-> FALSE, cmds |-> <<>>]
        ELSE [ran |-> TRUE, ok |-> TRUE, cmds |-> ShEndCmd(st).cmds]

\* subprocess.run(cmd) with a list and shell=False: the list is the argv
ExecArgv(argv) == [ran |-> TRUE, ok |-> TRUE, cmds |-> <<argv>>]

(***************************************************************************)
(* The capability registry and the child process.                          *)
(***************************************************************************)
ALLOWED_FUNCTIONS ==
    {"list_directory", "print_working_directory", "list_processes",
     "display_file_contents"}

\* a registry that has lost the binding of display_file_contents
AVAILABLE_FUNCTIONS_NoDisplay ==
    {"list_directory", "print_working_directory", "list_processes"}

AVAILABLE_FUNCTIONS ==
    {"list_directory", "print_working_directory", "list_processes",
     "display_file_contents"}

\* what the operating system does with a child process
ExecOutcomes == {"exit0", "exit1", "spawn_error"}

\* execute_shell_command: (stdout, stderr, returncode), the exception of a
\* failed spawn caught and returned as ('', str(e), 1)
execute_shell_command(command, env) ==
    CASE env = "exit0" -> [stdout |-> <<"<stdout>">>, stderr |-> <<>>, exit_status |-> 0]
      [] env = "exit1" -> [stdout |-> <<"<stdout>">>, stderr |-> <<"<stderr>">>, exit_status |-> 1]
      [] OTHER         -> [stdout |-> <<>>, stderr |-> <<"<exception>">>, exit_status |-> 1]

(***************************************************************************)
(* Tool-call requests.  arguments is what json.loads makes of the engine's *)
(* argument string: not JSON at all, JSON but no object, or an object whose*)
(* members path, options, file_path are absent, strings, numbers or lists. *)
(***************************************************************************)
Args(kind, path, options, file_path) ==
    [kind |-> kind, path |-> path, options |-> options, file_path |-> file_path]

NoArgs == Args("dict", JAbsent, JAbsent, JAbsent)

Dict(path, options, file_path) == Args("dict", path, options, file_path)

\* arguments.get(key, default)
Get(j, default) == IF j.t = "absent" THEN default ELSE j

\* Python's "not x" for an absent member (None), a string or a list; the
\* number stands for a non-zero one
Falsy(j) == j.t = "absent" \/ (j.t \in {"str", "list"} /\ j.v = <<>>)

Ret(kind, error, out, nspawned, exec) ==
    [kind |-> kind, error |-> error, stdout |-> out.stdout, stderr |-> out.stderr,
     exit_status |-> out.exit_status, spawned |-> nspawned, exec |-> exec]

NoOutput == [stdout |-> <<>>, stderr |-> <<>>, exit_status |-> 0]

\* return {"error": msg}
RetError(msg) == Ret("error", msg, NoOutput, 0, NoExec)

\* an exception leaves the function
RetRaise(exc) == Ret("raise", <<exc>>, NoOutput, 0, NoExec)

\* ' '.join(x) raises TypeError unless x is a string or a list of strings;
\* a string is joined character by character
CanJoin(j) == IsStr(j) \/ IsStrList(j)

JoinOptions(j) ==
    IF IsStr(j) THEN Join(<<" ">>, [i \in 1..Len(j.v) |-> <<j.v[i]>>])
    ELSE Join(<<" ">>, [i \in 1..Len(j.v) |-> j.v[i].v])

\* lines 341-347: run the command line, return what was captured
RunCommand(command, env) ==
    Ret("ok", <<>>, execute_shell_command(command, env), 1, ShParse(command))

\* handle_function_call(function_call): json.loads first, then the allow-list,
\* then the command line of the function
handle_function_call(function_call, env) ==
    LET function_name == function_call.name
        arguments == function_call.arguments
    IN
    IF arguments.kind = "invalid" THEN RetRaise("JSONDecodeError")
    ELSE IF function_name \notin ALLOWED_FUNCTIONS
    THEN RetError(<<"Function '", function_name, "' is not allowed.">>)
    ELSE IF function_name = "list_directory"
    THEN IF arguments.kind # "dict" THEN RetRaise("AttributeError")
         ELSE LET path == Get(arguments.path, JStr(<<".">>))
                  options == Get(arguments.options, JList(<<>>))
              IN  IF ~CanJoin(options) \/ ~IsStr(path) THEN RetRaise("TypeError")
                  ELSE RunCommand(<<"ls", " ">> \o JoinOptions(options) \o <<" ">>
                                  \o shlex_quote(path.v), env)
    ELSE IF function_name = "print_working_directory"
    THEN RunCommand(<<"pwd">>, env)
    ELSE IF function_name = "list_processes"
    THEN IF arguments.kind # "dict" THEN RetRaise("AttributeError")
         ELSE LET options == Get(arguments.options, JList(<<>>))
              IN  IF ~CanJoin(options) THEN RetRaise("TypeError")
                  ELSE RunCommand(<<"ps", " ">> \o JoinOptions(options), env)
    ELSE IF function_name = "display_file_contents"
    THEN IF arguments.kind # "dict" THEN RetRaise("AttributeError")
         ELSE LET file_path == arguments.file_path
              IN  IF Falsy(file_path)
                  THEN RetError(<<"Missing 'file_path' argument.">>)
                  ELSE IF ~IsStr(file_path) THEN RetRaise("TypeError")
                  ELSE RunCommand(<<"cat", " ">> \o shlex_quote(file_path.v), env)
    ELSE RetError(<<"Function '", function_name, "' is not implemented.">>)

\* a caller that hands on the standard output only
tool_output_StdoutOnly(r) ==
    IF r.kind = "error" THEN <<"Error: ">> \o r.error ELSE r.stdout

\* lines 463-466 (379-384 in process_run): the output text of a result
tool_output(r) ==
    IF r.kind = "error" THEN <<"Error: ">> \o r.error ELSE r.stdout \o r.stderr

(***************************************************************************)
(* ollama_debugger.py: the tool functions and the dispatch in run().       *)
(***************************************************************************)
Text(t) == [stdout |-> t, stderr |-> <<>>, exit_status |-> 0]

\* subprocess.run(cmd, capture_output=True, text=True, check=True, shell=False)
\* inside the try of list_directory / list_processes: every exception is
\* turned into the returned text
RunArgv(what, argv, env) ==
    CASE env = "exit0" -> Ret("ok", <<>>, Text(<<"<stdout>">>), 1, ExecArgv(argv))
      [] env = "exit1" ->
            Ret("ok", <<>>, Text(<<"Error listing ", what, ": ", "<stderr>">>), 1,
                ExecArgv(argv))
      [] OTHER -> Ret("ok", <<>>, Text(<<"Unexpected error: ", "<exception>">>), 1,
                      ExecArgv(argv))

Unexpected == Ret("ok", <<>>, Text(<<"Unexpected error: ", "TypeError">>), 0, NoExec)

list_directory(path, options, env) ==
    IF ~IsStrList(options) \/ ~IsStr(path) THEN Unexpected
    ELSE RunArgv("directory",
                 <<(<<"ls">>), path.v>> \o [i \in 1..Len(options.v) |-> options.v[i].v],
                 env)

\* os.getcwd(): no child process
print_working_directory == Ret("ok", <<>>, Text(<<"<cwd>">>), 0, NoExec)

list_processes(options, env) ==
    IF ~IsStrList(options) THEN Unexpected
    ELSE RunArgv("processes",
                 <<(<<"ps">>)>> \o [i \in 1..Len(options.v) |-> options.v[i].v], env)

\* open(file_path).read(): no child process; env is what the file system does
display_file_contents(file_path, env) ==
    CASE env = "exit0" -> Ret("ok", <<>>, Text(<<"<contents>">>), 0, NoExec)
      [] env = "exit1" -> Ret("ok", <<>>, Text(<<"File not found: ", "<file_path>">>), 0, NoExec)
      [] OTHER -> Ret("ok", <<>>, Text(<<"Error reading file: ", "<exception>">>), 0, NoExec)

KeyError(function_name, key) ==
    RetError(<<"Error executing function '", function_name, "': ", key>>)

\* run(), lines 476-522: one tool call of the first response
ollama_tool_call(tool, env) ==
    LET function_name == tool.name
        function_args == tool.arguments
    IN
    IF function_name \in AVAILABLE_FUNCTIONS
    THEN IF function_name = "list_directory"
         THEN IF function_args.path.t = "absent" THEN KeyError(function_name, "'path'")
              ELSE list_directory(function_args.path,
                                  Get(function_args.options, JList(<<>>)), env)
         ELSE IF function_name = "print_working_directory"
         THEN print_working_directory
         ELSE IF function_name = "list_processes"
         THEN list_processes(Get(function_args.options, JList(<<>>)), env)
         ELSE IF function_name = "display_file_contents"
         THEN IF function_args.file_path.t = "absent"
              THEN KeyError(function_name, "'file_path'")
              ELSE display_file_contents(function_args.file_path, env)
         ELSE RetError(<<"Function '", function_name, "' is not implemented.">>)
    ELSE RetError(<<"Function '", function_name, "' is not allowed.">>)

\* the content of the 'tool' message appended for a result
function_response(r) == IF r.kind = "error" THEN r.error ELSE r.stdout

(***************************************************************************)
(* The dispatcher on its own: one request, dispatched once by one adapter. *)
(***************************************************************************)
Names == ALLOWED_FUNCTIONS \cup {"delete_all_files"}

StrVals == {JStr(s) : s \in Strings}

PathVals == {JAbsent, JNum} \cup StrVals

OptElems == {JNum} \cup StrVals

OptionLists ==
    {<<>>} \cup {<<e>> : e \in OptElems} \cup {<<JStr(<<"-la">>), e>> : e \in OptElems}

OptionVals == {JAbsent, JNum} \cup StrVals \cup {JList(l) : l \in OptionLists}

Call(name, arguments) == [name |-> name, arguments |-> arguments]

DictRequests ==
    {Call("list_directory", Dict(p, o, JAbsent)) : p \in PathVals, o \in OptionVals}
    \cup {Call("list_processes", Dict(JAbsent, o, JAbsent)) : o \in OptionVals}
    \cup {Call("display_file_contents", Dict(JAbsent, JAbsent, f)) : f \in PathVals}
    \cup {Call(n, NoArgs) : n \in Names}

\* an argument string that is not JSON, or JSON that is no object
BadArgs == {Args("invalid", JAbsent, JAbsent, JAbsent),
            Args("nondict", JAbsent, JAbsent, JAbsent)}

\* the OpenAI engine sends arguments as a string, ollama as a mapping
Requests(a) ==
    IF a = "openai" THEN DictRequests \cup {Call(n, b) : n \in Names, b \in BadArgs}
    ELSE DictRequests

NoCall == Call("", NoArgs)

NoResult == [done |-> FALSE, ret |-> RetError(<<>>), output |-> <<>>]

\* dispatch of one request: the tool functions of the adapter and the text
\* it hands to the engine (none when the call raised)
Dispatch(a, req, env) ==
    LET r == IF a = "openai" THEN handle_function_call(req, env)
             ELSE ollama_tool_call(req, env)
    IN  [done |-> TRUE, ret |-> r,
         output |-> IF r.kind = "raise" THEN <<>>
                    ELSE IF a = "openai" THEN tool_output(r) ELSE function_response(r)]

Idle ==
    /\ exit_status = -1
    /\ exitCode = -1
    /\ status = "none"
    /\ observed = "none"
    /\ stack = <<>>
    /\ pipe = <<>>
    /\ received = <<>>
    /\ submitted = <<>>
    /\ dispatched = <<>>
    /\ spawned = 0
    /\ nEvents = 0
    /\ chats = 0
    /\ pipeFailed = FALSE
    /\ reported = "none"
    /\ runs = 0
    /\ raised = "none"
    /\ delivered = <<>>
    /\ fifoPath = "fifo"
    /\ finalRead = FALSE

InitDispatch ==
    /\ adapter \in {"openai", "ollama"}
    /\ request \in Requests(adapter)
    /\ result = NoResult
    /\ variant = "dispatch"
    /\ pc = "dispatch"
    /\ Idle

DispatchCall ==
    /\ ~result.done
    /\ \E env \in ExecOutcomes : result' = Dispatch(adapter, request, env)
    /\ UNCHANGED <<adapter, request, variant, pc, mainVars, runVars>>

NextDispatch == DispatchCall

SpecDispatch == InitDispatch /\ [][NextDispatch]_vars

(***************************************************************************)
(* The run: the engine's events, the handlers and the stream sink.         *)
(***************************************************************************)
Terminal == {"completed", "failed", "cancelled", "expired"}

\* the text values the engine streams: the model writes what it likes, a
\* line EOF (as in a here-document) included
Deltas == {"a", "\nEOF\n"}

\* text.value of a text-created event
CreatedValues == {"a"}

Chunk(v) == [kind |-> "chunk", text |-> v]

\* fifo.write('\nEOF\n')
Sentinel == [kind |-> "sentinel", text |-> "\nEOF\n"]

\* tool calls the engine asks for in a run
ToolSamples(a) ==
    {Call("delete_all_files", NoArgs), Call("print_working_directory", NoArgs)}
    \cup (IF a = "openai"
          THEN {Call("list_processes", Args("invalid", JAbsent, JAbsent, JAbsent))}
          ELSE {Call("list_directory", NoArgs)})

\* the call ids of a run are unique: a new batch continues after the last id
LastId == IF received = <<>> THEN 0
          ELSE received[Len(received)][Len(received[Len(received)])]

WorkLeft == MaxWork - nEvents - LastId

\* A batch is held as its call ids; what each call asks for is drawn when the
\* loop reaches it (the controller reads tool.function only there).
Batches(base) == {[i \in 1..n |-> base + i] : n \in 1..WorkLeft}

\* ollama's 'tool' messages carry no call id
NoId == 0

\* one active call: a StreamingEventHandler consuming a stream ("handler"),
\* process_run ("monitor") or the tool loop of ollama's run ("ollama")
Frame(kind, fifo) ==
    [kind |-> kind, fifo |-> fifo, suggestion |-> <<>>, hpc |-> "idle",
     batch |-> <<>>, batchNo |-> 0, i |-> 1, tool_outputs |-> <<>>]

\* open(FIFO_PATH, 'w') returns a file, raises, or does not return: the open
\* of a FIFO for writing blocks until a reader has it open, and O_NONBLOCK is
\* set by fcntl only after the open has returned
OpenOutcomes == {"open", "failed", "blocked"}

\* open(FIFO_PATH, 'w') can fail to return only on a FIFO: with nothing at
\* the path it creates a regular file (or fails)
CanOpen(at, o) == o = "blocked" => at = "fifo"

\* what is at the path after the open: nothing in the program creates the
\* FIFO (create_fifo is called nowhere), so an open that finds nothing there
\* leaves a regular file
AfterOpen(at, o) == IF at = "absent" /\ o = "open" THEN "file" ELSE at

\* the call is inside open()
Stalled(f) == [f EXCEPT !.hpc = "stalled"]

\* StreamingEventHandler.__init__: self.fifo exists only if the open succeeded
StreamingEventHandler(opened) == Frame("handler", IF opened THEN "open" ELSE "failed")

Top == stack[Len(stack)]

SetTop(f) == [stack EXCEPT ![Len(stack)] = f]

Pop == SubSeq(stack, 1, Len(stack) - 1)

\* one event as a handler got it: "delta" with its text (on_text_delta) or
\* "completed" (thread.message.completed), and whether the write it led to
\* went through
Delivered(event, text, written) == [event |-> event, text |-> text, written |-> written]

\* self.fifo.write(x); self.fifo.flush() inside try/except: a failure is logged
FifoWrite(f, p, x, ok) == IF f.fifo = "open" /\ ok THEN Append(p, x) ELSE p

WriteFails(f, ok) == ~(f.fifo = "open" /\ ok)

\* on_text_created: self.suggestion += text.value
on_text_created(f, v) == [f EXCEPT !.suggestion = Append(f.suggestion, v)]

\* on_text_delta: self.suggestion += text_value, then the write
on_text_delta(f, v) == [f EXCEPT !.suggestion = Append(f.suggestion, v)]

\* a handler that ends the text on the pipe when the run ends
handle_general_event_WritesSentinel(f, p) == FifoWrite(f, p, Sentinel, TRUE)

\* StreamingEventHandler.handle_general_event: a debug line, nothing written
handle_general_event(f, p) == p

\* a handler that leaves out the entry of a call that ended in an error
AppendToolOutput_SkipErrors(outs, tool, r) ==
    IF r.kind = "error" THEN outs
    ELSE Append(outs, [tool_call_id |-> tool.id, output |-> tool_output(r)])

\* a loop that puts the newest entry in front (tool_outputs.insert(0, ...))
AppendToolOutput_Prepend(outs, tool, r) ==
    <<[tool_call_id |-> tool.id, output |-> tool_output(r)]>> \o outs

\* lines 463-471: the entry appended for one tool call
AppendToolOutput(outs, tool, r) ==
    Append(outs, [tool_call_id |-> tool.id, output |-> tool_output(r)])

\* a loop that appends no 'tool' message for a call that was refused
AppendToolMessage_SkipRefused(outs, tool, r) ==
    IF r.kind = "error" THEN outs
    ELSE Append(outs, [tool_call_id |-> NoId, output |-> function_response(r)])

\* lines 507-512, 517-522: the 'tool' message appended for one tool call
AppendToolMessage(outs, tool, r) ==
    Append(outs, [tool_call_id |-> NoId, output |-> function_response(r)])

\* what the engine is sent for a batch: the call id of every entry
Submission(f) ==
    [batch |-> f.batchNo,
     ids |-> [k \in 1..Len(f.tool_outputs) |-> f.tool_outputs[k].tool_call_id]]

\* a loop that sends in a finally clause what it has collected so far
SubmittedOnRaise_Finally(sub, f) == Append(sub, Submission(f))

\* the exception of handle_function_call leaves the for loop: line 474 (391),
\* the only call of submit_tool_outputs, is not reached
SubmittedOnRaise(sub, f) == sub

\* the submission indented into the loop: sent after the first result
SubmitDue_InsideLoop(f) == f.i > 1

\* the for loop over tool_calls has ended: line 474 (391) is reached
SubmitDue(f) == f.i > Len(f.batch)

\* a handler that stops taking events when its FIFO is not open
CanTakeEvent_OnlyIfOpen(f) == f.kind = "handler" /\ f.hpc = "idle" /\ f.fifo = "open"

\* the handler takes the next event of its stream only between events
CanTakeEvent(f) == f.kind = "handler" /\ f.hpc = "idle"

\* a loop that ends on completed only
MonitorBreaks_CompletedOnly(s) == s = "completed"

\* monitor_run, lines 595-599: the statuses that break the loop
MonitorBreaks(s) == s \in {"completed", "failed", "cancelled", "expired"}

\* a loop that starts at the second request of the batch
StartBatch_SkipFirst(f, batch) ==
    [f EXCEPT !.hpc = "dispatching", !.batch = batch,
              !.batchNo = Len(received) + 1, !.i = 2, !.tool_outputs = <<>>]

StartBatch(f, batch) ==
    [f EXCEPT !.hpc = "dispatching", !.batch = batch,
              !.batchNo = Len(received) + 1, !.i = 1, !.tool_outputs = <<>>]

\* a submission that returns at once and leaves the continuation stream to
\* be consumed in the background: the outer handler is free for events
Waiting_ReturnsAtOnce(f) ==
    [f EXCEPT !.hpc = "idle", !.batch = <<>>, !.batchNo = 0, !.i = 1,
              !.tool_outputs = <<>>]

\* the call is inside submit_tool_outputs, in stream.until_done(); the batch
\* and its results are not used again
Waiting(f) ==
    [f EXCEPT !.hpc = "waiting", !.batch = <<>>, !.batchNo = 0, !.i = 1,
              !.tool_outputs = <<>>]

\* handle_requires_action / process_run has returned
EndBatch(f) ==
    [f EXCEPT !.hpc = "idle", !.batch = <<>>, !.batchNo = 0, !.i = 1,
              !.tool_outputs = <<>>]

\* the exception of a request to the engine that failed, or of a stream that broke
EngineError == "APIConnectionError"

\* a controller that starts the run again when an exception reaches it
Raise_Retry ==
    /\ stack' = <<>>
    /\ pc' = (IF variant = "stream" THEN "initiate_run" ELSE "monitor")
    /\ exitCode' = exitCode

\* An exception leaves the controller: initiate_run catches it, prints and
\* calls sys.exit(1); monitor_run has no handler.
Raise ==
    /\ stack' = <<>>
    /\ IF variant = "stream"
       THEN pc' = "exited" /\ exitCode' = 1
       ELSE pc' = "crashed" /\ exitCode' = exitCode

Init ==
    /\ variant \in {"stream", "poll", "ollama"}
    /\ adapter = (IF variant = "ollama" THEN "ollama" ELSE "openai")
    /\ request = NoCall
    /\ result = NoResult
    /\ pc = (CASE variant = "stream" -> "main"
               [] variant = "poll" -> "monitor"
               [] OTHER -> "o_first")
    /\ exit_status = -1
    /\ exitCode = -1
    /\ status = (IF variant = "poll" THEN "in_progress" ELSE "none")
    /\ observed = "none"
    /\ stack = <<>>
    /\ pipe = <<>>
    /\ received = <<>>
    /\ submitted = <<>>
    /\ dispatched = <<>>
    /\ spawned = 0
    /\ nEvents = 0
    /\ chats = 0
    /\ pipeFailed = FALSE
    /\ reported = "none"
    /\ runs = (IF variant = "poll" THEN 1 ELSE 0)
    /\ raised = "none"
    /\ delivered = <<>>
    \* the FIFO is in place, made by the consumer; SpecSink starts without it too
    /\ fifoPath = "fifo"
    /\ finalRead = FALSE

(***************************************************************************)
(* main() of llm_debugger.py.                                              *)
(***************************************************************************)
ExitStatuses == {0, 2}

\* lines 59-62 and 642-644: no API key or no command: sys.exit(1) before the
\* user's command is run
StartupExit ==
    /\ pc = "main"
    /\ pc' = "exited"
    /\ exitCode' = 1
    /\ UNCHANGED <<dispatchVars, variant, exit_status, runVars>>

\* a main that asks the engine whatever the command's exit status
RunUserCommand_AlwaysAsk ==
    /\ pc = "main"
    /\ \E s \in ExitStatuses : exit_status' = s
    /\ pc' = "create_assistant"
    /\ exitCode' = exitCode
    /\ UNCHANGED <<dispatchVars, variant, runVars>>

\* lines 652-661 and 677: run the user's command; a command that succeeded
\* ends the process at once
RunUserCommand ==
    /\ pc = "main"
    /\ \E s \in ExitStatuses :
         /\ exit_status' = s
         /\ IF s = 0 THEN pc' = "exited" /\ exitCode' = s
            ELSE pc' = "create_assistant" /\ exitCode' = exitCode
    /\ UNCHANGED <<dispatchVars, variant, runVars>>

\* create_assistant_if_not_exists / create_assistant: sys.exit(1) on failure
CreateAssistant ==
    /\ pc = "create_assistant"
    /\ \E ok \in BOOLEAN :
         IF ok THEN pc' = "create_thread" /\ exitCode' = exitCode
         ELSE pc' = "exited" /\ exitCode' = 1
    /\ UNCHANGED <<dispatchVars, variant, exit_status, runVars>>

\* create_thread: sys.exit(1) on failure
CreateThread ==
    /\ pc = "create_thread"
    /\ \E ok \in BOOLEAN :
         IF ok THEN pc' = "initiate_run" /\ exitCode' = exitCode
         ELSE pc' = "exited" /\ exitCode' = 1
    /\ UNCHANGED <<dispatchVars, variant, exit_status, runVars>>

\* initiate_run: the handler is built (the FIFO opened) and the stream begun
InitiateRun ==
    /\ pc = "initiate_run"
    /\ \E o \in OpenOutcomes :
         /\ CanOpen(fifoPath, o)
         /\ fifoPath' = AfterOpen(fifoPath, o)
         /\ IF o = "blocked"
            THEN /\ pc' = "stalled"
                 /\ UNCHANGED <<stack, pipeFailed, status, runs>>
            ELSE /\ stack' = <<StreamingEventHandler(o = "open")>>
                 /\ pipeFailed' = (pipeFailed \/ o = "failed")
                 /\ status' = "in_progress"
                 /\ runs' = runs + 1
                 /\ pc' = "streaming"
    /\ UNCHANGED <<dispatchVars, finalRead, delivered, variant, reported, raised, mainVars, observed, pipe, received,
                   submitted, dispatched, spawned, nEvents, chats>>

(***************************************************************************)
(* The events of a stream, delivered to the innermost handler.             *)
(***************************************************************************)
EventReady == stack # <<>> /\ CanTakeEvent(Top) /\ status \notin Terminal

OnTextCreated ==
    /\ EventReady
    /\ WorkLeft > 0
    /\ \E v \in CreatedValues : stack' = SetTop(on_text_created(Top, v))
    /\ nEvents' = nEvents + 1
    /\ UNCHANGED <<dispatchVars, finalRead, fifoPath, variant, reported, runs, raised, delivered, pc, mainVars, status, observed, pipe,
                   received, submitted, dispatched, spawned, chats, pipeFailed>>

OnTextDelta ==
    /\ EventReady
    /\ WorkLeft > 0
    /\ \E v \in Deltas, ok \in BOOLEAN :
         /\ stack' = SetTop(on_text_delta(Top, v))
         /\ pipe' = FifoWrite(Top, pipe, Chunk(v), ok)
         /\ pipeFailed' = (pipeFailed \/ WriteFails(Top, ok))
         /\ delivered' = Append(delivered, Delivered("delta", v, ~WriteFails(Top, ok)))
    /\ nEvents' = nEvents + 1
    /\ UNCHANGED <<dispatchVars, finalRead, fifoPath, variant, reported, runs, raised, pc, mainVars, status, observed,
                   received, submitted, dispatched, spawned, chats>>

\* thread.message.completed: handle_final_message writes the sentinel
OnMessageCompleted ==
    /\ EventReady
    /\ WorkLeft > 0
    /\ \E ok \in BOOLEAN :
         /\ pipe' = FifoWrite(Top, pipe, Sentinel, ok)
         /\ pipeFailed' = (pipeFailed \/ WriteFails(Top, ok))
         /\ delivered' = Append(delivered, Delivered("completed", "", ~WriteFails(Top, ok)))
    /\ nEvents' = nEvents + 1
    /\ UNCHANGED <<dispatchVars, finalRead, fifoPath, variant, reported, runs, raised, pc, mainVars, status, observed, stack,
                   received, submitted, dispatched, spawned, chats>>

\* thread.run.requires_action: handle_requires_action starts on the batch
OnRequiresAction ==
    /\ EventReady
    /\ WorkLeft > 0
    /\ \E batch \in Batches(LastId) :
         /\ stack' = SetTop(StartBatch(Top, batch))
         /\ received' = Append(received, batch)
    /\ status' = "requires_action"
    /\ UNCHANGED <<dispatchVars, finalRead, fifoPath, variant, reported, runs, raised, delivered, pc, mainVars, observed, pipe, submitted,
                   dispatched, spawned, nEvents, chats, pipeFailed>>

\* thread.run.completed / failed / cancelled / expired: handle_general_event
OnRunStatus ==
    /\ EventReady
    /\ \E s \in Terminal :
         /\ status' = s
         /\ pipe' = handle_general_event(Top, pipe)
    /\ UNCHANGED <<dispatchVars, finalRead, fifoPath, variant, reported, runs, raised, delivered, pc, mainVars, observed, stack,
                   received, submitted, dispatched, spawned, nEvents, chats,
                   pipeFailed>>

\* one turn of the loop of handle_requires_action / process_run
DispatchNext ==
    /\ stack # <<>>
    /\ Top.kind \in {"handler", "monitor"}
    /\ Top.hpc = "dispatching"
    /\ ~SubmitDue(Top)
    /\ \E function \in ToolSamples("openai"), env \in ExecOutcomes :
         LET tool == [id |-> Top.batch[Top.i], function |-> function]
             r == handle_function_call(tool.function, env)
         IN  /\ dispatched' = Append(dispatched, tool.id)
             /\ spawned' = spawned + r.spawned
             /\ IF r.kind = "raise"
                THEN /\ Raise
                     /\ raised' = r.error[1]
                     /\ submitted' = SubmittedOnRaise(submitted, Top)
                ELSE /\ stack' = SetTop([Top EXCEPT !.i = @ + 1,
                          !.tool_outputs = AppendToolOutput(@, tool, r)])
                     /\ UNCHANGED <<pc, exitCode, raised, submitted>>
    /\ UNCHANGED <<dispatchVars, finalRead, fifoPath, delivered, variant, reported, runs, exit_status, status, observed, pipe,
                   received, nEvents, chats, pipeFailed>>

\* submit_tool_outputs: the results go to the engine and the continuation
\* stream is consumed by a new StreamingEventHandler, inside this call
SubmitToolOutputs ==
    /\ stack # <<>>
    /\ Top.kind \in {"handler", "monitor"}
    /\ Top.hpc = "dispatching"
    /\ SubmitDue(Top)
    /\ \E o \in OpenOutcomes, sent \in BOOLEAN :
         /\ CanOpen(fifoPath, o)
         /\ fifoPath' = AfterOpen(fifoPath, o)
         /\ IF o = "blocked"
            THEN \* StreamingEventHandler() is an argument of the request: it is
                 \* built first, and nothing is sent while its open does not return
                 /\ stack' = SetTop(Stalled(Top))
                 /\ pc' = "stalled"
                 /\ UNCHANGED <<exitCode, pipeFailed, submitted, status, raised>>
            ELSE /\ pipeFailed' = (pipeFailed \/ o = "failed")
                 /\ IF sent
                    THEN /\ submitted' = Append(submitted, Submission(Top))
                         /\ stack' = Append(SetTop(Waiting(Top)),
                                            StreamingEventHandler(o = "open"))
                         /\ status' = "in_progress"
                         /\ UNCHANGED <<pc, exitCode, raised>>
                    ELSE /\ Raise
                         /\ raised' = EngineError
                         /\ UNCHANGED <<submitted, status>>
    /\ UNCHANGED <<dispatchVars, finalRead, delivered, variant, reported, runs, exit_status, observed, pipe, received,
                   dispatched, spawned, nEvents, chats>>

\* stream.until_done() returns: the handler is dropped (its FIFO closed) and
\* the call that started the stream goes on.  A stream ends once the run has
\* a terminal status; the stream that reported requires_action ends when the
\* continuation started for it has ended.
StreamDone ==
    /\ stack # <<>>
    /\ CanTakeEvent(Top)
    /\ status \in Terminal
    /\ IF Len(stack) = 1
       THEN \* initiate_run returns, main ends with sys.exit(exit_status)
            /\ stack' = <<>>
            /\ pc' = "exited"
            /\ exitCode' = exit_status
       ELSE IF stack[Len(stack) - 1].kind = "handler"
       THEN \* handle_requires_action returns to the outer stream
            /\ stack' = [Pop EXCEPT ![Len(stack) - 1] = EndBatch(@)]
            /\ UNCHANGED <<pc, exitCode>>
       ELSE \* process_run returns to monitor_run: time.sleep(1), next turn
            /\ stack' = <<>>
            /\ pc' = "monitor"
            /\ UNCHANGED exitCode
    /\ UNCHANGED <<dispatchVars, finalRead, fifoPath, variant, reported, runs, raised, delivered, exit_status, status, observed, pipe,
                   received, submitted, dispatched, spawned, nEvents, chats,
                   pipeFailed>>

\* the engine cannot be reached, or the stream breaks
StreamError ==
    /\ stack # <<>>
    /\ CanTakeEvent(Top)
    /\ Raise
    /\ raised' = EngineError
    /\ UNCHANGED <<dispatchVars, finalRead, fifoPath, delivered, variant, reported, runs, exit_status, status, observed, pipe,
                   received, submitted, dispatched, spawned, nEvents, chats,
                   pipeFailed>>

(***************************************************************************)
(* monitor_run: the polling controller.                                    *)
(***************************************************************************)
\* what the engine may report at the next retrieve
EngineNext(st) ==
    IF st \in Terminal THEN {st}
    ELSE {"in_progress"} \cup Terminal
         \cup (IF WorkLeft > 0 THEN {"requires_action"} ELSE {})

\* line 601: the final message is read when the loop was left on completed
ReadsFinalMessage(s) == s = "completed"

\* one turn of the while loop; a retrieve that fails raises out of monitor_run
MonitorRetrieve ==
    /\ pc = "monitor"
    /\ \/ \E s \in EngineNext(status) :
            /\ status' = s
            /\ observed' = s
            /\ reported' = (IF s \in {"failed", "cancelled", "expired"} THEN s
                            ELSE reported)
            /\ IF s = "requires_action"
               THEN \E batch \in Batches(LastId) :
                      /\ stack' = <<StartBatch(Frame("monitor", "none"), batch)>>
                      /\ received' = Append(received, batch)
                      /\ pc' = "process_run"
               ELSE /\ pc' = (IF MonitorBreaks(s) THEN "monitor_done" ELSE "monitor")
                    /\ UNCHANGED <<stack, received>>
            /\ IF MonitorBreaks(s) /\ ReadsFinalMessage(s)
               THEN \* lines 601-604, after the loop: messages.list and the
                    \* debug line; a request that fails raises out of monitor_run
                    \E ok \in BOOLEAN :
                       /\ finalRead' = ok
                       /\ raised' = (IF ok THEN raised ELSE EngineError)
               ELSE UNCHANGED <<finalRead, raised>>
       \/ /\ Raise
          /\ raised' = EngineError
          /\ UNCHANGED <<status, observed, received, reported, finalRead>>
    /\ UNCHANGED <<dispatchVars, fifoPath, delivered, variant, runs, mainVars, pipe, submitted, dispatched,
                   spawned, nEvents, chats, pipeFailed>>

(***************************************************************************)
(* run() of ollama_debugger.py: two chat requests.                         *)
(***************************************************************************)
OllamaFirstCall ==
    /\ pc = "o_first"
    /\ chats' = chats + 1
    /\ \E outcome \in {"error", "answer", "tool_calls"} :
         IF outcome = "tool_calls"
         THEN \E batch \in Batches(LastId) :
                /\ stack' = <<StartBatch(Frame("ollama", "none"), batch)>>
                /\ received' = Append(received, batch)
                /\ pc' = "o_tools"
         ELSE /\ pc' = (IF outcome = "error" THEN "o_failed" ELSE "o_done")
              /\ UNCHANGED <<stack, received>>
    /\ UNCHANGED <<dispatchVars, finalRead, fifoPath, variant, reported, runs, raised, delivered, mainVars, status, observed, pipe,
                   submitted, dispatched, spawned, nEvents, pipeFailed>>

OllamaToolCall ==
    /\ pc = "o_tools"
    /\ ~SubmitDue(Top)
    /\ \E function \in ToolSamples("ollama"), env \in ExecOutcomes :
         LET tool == [id |-> Top.batch[Top.i], function |-> function]
             r == ollama_tool_call(tool.function, env)
         IN  /\ dispatched' = Append(dispatched, tool.id)
             /\ spawned' = spawned + r.spawned
             /\ stack' = SetTop([Top EXCEPT !.i = @ + 1,
                                  !.tool_outputs = AppendToolMessage(@, tool, r)])
    /\ UNCHANGED <<dispatchVars, finalRead, fifoPath, variant, reported, runs, raised, delivered, pc, mainVars, status, observed, pipe,
                   received, submitted, nEvents, chats, pipeFailed>>

\* the second chat request carries the history with the 'tool' messages
OllamaSecondCall ==
    /\ pc = "o_tools"
    /\ SubmitDue(Top)
    /\ chats' = chats + 1
    /\ submitted' = Append(submitted, Submission(Top))
    /\ stack' = <<>>
    /\ \E ok \in BOOLEAN : pc' = (IF ok THEN "o_done" ELSE "o_failed")
    /\ UNCHANGED <<dispatchVars, finalRead, fifoPath, variant, reported, runs, raised, delivered, mainVars, status, observed, pipe,
                   received, dispatched, spawned, nEvents, pipeFailed>>

Next ==
    \/ StartupExit
    \/ RunUserCommand
    \/ CreateAssistant
    \/ CreateThread
    \/ InitiateRun
    \/ OnTextCreated
    \/ OnTextDelta
    \/ OnMessageCompleted
    \/ OnRequiresAction
    \/ OnRunStatus
    \/ DispatchNext
    \/ SubmitToolOutputs
    \/ StreamDone
    \/ StreamError
    \/ MonitorRetrieve
    \/ OllamaFirstCall
    \/ OllamaToolCall
    \/ OllamaSecondCall

Spec == Init /\ [][Next]_vars

(***************************************************************************)
(* main() started without knowing whether the consumer has made the FIFO.  *)
(***************************************************************************)
InitSink ==
    /\ variant = "stream"
    /\ adapter = "openai"
    /\ request = NoCall
    /\ result = NoResult
    /\ pc = "main"
    /\ exit_status = -1
    /\ exitCode = -1
    /\ status = "none"
    /\ observed = "none"
    /\ stack = <<>>
    /\ pipe = <<>>
    /\ received = <<>>
    /\ submitted = <<>>
    /\ dispatched = <<>>
    /\ spawned = 0
    /\ nEvents = 0
    /\ chats = 0
    /\ pipeFailed = FALSE
    /\ reported = "none"
    /\ runs = 0
    /\ raised = "none"
    /\ delivered = <<>>
    /\ fifoPath \in {"absent", "fifo"}
    /\ finalRead = FALSE

NextSink ==
    \/ StartupExit
    \/ RunUserCommand
    \/ CreateAssistant
    \/ CreateThread
    \/ InitiateRun
    \/ OnTextCreated
    \/ OnTextDelta
    \/ OnMessageCompleted
    \/ OnRequiresAction
    \/ OnRunStatus
    \/ DispatchNext
    \/ SubmitToolOutputs
    \/ StreamDone
    \/ StreamError

SpecSink == InitSink /\ [][NextSink]_vars

(***************************************************************************)
(* Claims about the dispatcher (checked under SpecDispatch).               *)
(***************************************************************************)
Count(s, x) == Cardinality({i \in 1..Len(s) : s[i] = x})

Range(s) == {s[i] : i \in 1..Len(s)}

SameBag(s, t) ==
    /\ Len(s) = Len(t)
    /\ \A x \in Range(s) \cup Range(t) : Count(s, x) = Count(t, x)

\* the argument values of a request that its command embeds
OptionValues(j) == IF j.t = "list" THEN [i \in 1..Len(j.v) |-> j.v[i].v] ELSE <<>>

EmbeddedValues(req) ==
    CASE req.name = "list_directory" ->
            OptionValues(req.arguments.options)
            \o <<Get(req.arguments.path, JStr(<<".">>)).v>>
      [] req.name = "list_processes" -> OptionValues(req.arguments.options)
      [] req.name = "display_file_contents" -> <<req.arguments.file_path.v>>
      [] OTHER -> <<>>

WellTypedOptions(req) == req.arguments.options.t \in {"absent", "list"}

\* a call that is well-formed but for a required argument it leaves out
MissingRequired(req) ==
    /\ req.arguments.kind = "dict"
    /\ req.arguments.options.t = "absent" \/ IsStrList(req.arguments.options)
    /\ \/ req.name = "list_directory" /\ req.arguments.path.t = "absent"
       \/ req.name = "display_file_contents" /\ req.arguments.file_path.t = "absent"

\* C1: a request whose tool name is not in the allow-list gets an error
\* result from dispatch, in both adapters, and no child process is spawned.
C1_DisallowedIsErrorNoSpawn ==
    (result.done /\ request.name \notin ALLOWED_FUNCTIONS)
        => (result.ret.kind = "error" /\ result.ret.spawned = 0)

\* C2: when an allowed call has run its command, the shell ran exactly one
\* simple command whose arguments are, literally, the embedded argument
\* values (path, file_path, each element of options): nothing was split,
\* unquoted or turned into a second command.
C2_ArgumentsReachCommandLiterally ==
    (result.done /\ result.ret.exec.ran /\ WellTypedOptions(request))
        => /\ result.ret.exec.ok
           /\ Len(result.ret.exec.cmds) = 1
           /\ SameBag(Tail(result.ret.exec.cmds[1]), EmbeddedValues(request))

\* C6: an allowed call that lacks a required argument (list_directory without
\* path, display_file_contents without file_path) gets an error result and
\* spawns no child process, in both adapters.
C6_MissingArgumentIsErrorNoSpawn ==
    (result.done /\ MissingRequired(request))
        => (result.ret.kind = "error" /\ result.ret.spawned = 0)

\* C7: dispatch returns a result for every request: no exception leaves it.
C7_DispatchNeverRaises == result.done => result.ret.kind # "raise"

(***************************************************************************)
(* Claims about the run (checked under Spec).                              *)
(***************************************************************************)
NSentinels == Cardinality({k \in 1..Len(pipe) : pipe[k].kind = "sentinel"})

\* the event-pushed run is over and main has ended normally
StreamRunOver == variant = "stream" /\ pc = "exited" /\ status # "none"

\* C3: a run of the event-pushed variant that reaches completed has written
\* exactly one sentinel, and the sentinel is the last frame on the pipe.
\* Stated for the runs in which no open or write of the pipe failed and a
\* message was completed (so that a sentinel was written at all).
C3_ExactlyOneSentinelLast ==
    (StreamRunOver /\ exitCode = exit_status /\ status = "completed"
     /\ ~pipeFailed /\ NSentinels >= 1)
        => (NSentinels = 1 /\ pipe[Len(pipe)].kind = "sentinel")

\* C4: on every exit path of a run (completed, failed, cancelled, expired,
\* engine communication error) a sentinel has been written by the time the
\* channel is released.  Stated for runs in which no open or write failed.
C4_SentinelOnEveryExit == (StreamRunOver /\ ~pipeFailed) => NSentinels >= 1

\* batch k of the run has been answered in full by one submission
FullySubmitted(k) ==
    \E j \in 1..Len(submitted) :
        /\ submitted[j].batch = k
        /\ Len(submitted[j].ids) = Len(received[k])
        /\ adapter = "openai" => SameBag(submitted[j].ids, received[k])

\* C5: every submitted result list has as many entries as its batch has
\* requests, and (where results carry call ids) each request id appears
\* exactly once and no other id appears.
C5_SubmissionMatchesBatch ==
    \A j \in 1..Len(submitted) :
        LET ids == submitted[j].ids
            req == received[submitted[j].batch]
        IN  /\ Len(ids) = Len(req)
            /\ adapter = "openai" =>
                  /\ \A id \in Range(req) : Count(ids, id) = 1
                  /\ Range(ids) \subseteq Range(req)

C5_Witness ==
    /\ adapter = "openai"
    /\ \E j \in 1..Len(submitted) : Len(submitted[j].ids) >= 2

\* C8: once the user's command has run, the process exits with that
\* command's exit status on every path.
C8_ExitCodeMirrorsCommand ==
    (variant = "stream" /\ pc = "exited" /\ exit_status # -1)
        => exitCode = exit_status

\* C9: once monitor_run has observed completed, failed, cancelled or expired
\* it has left its loop, and from then on it dispatches nothing, submits
\* nothing and its view of the run's status does not change.
C9_TerminalIsAbsorbing ==
    /\ []((variant = "poll" /\ observed \in Terminal) => pc = "monitor_done")
    /\ [][(variant = "poll" /\ observed \in Terminal)
             => /\ pc' = "monitor_done"
                /\ observed' = observed
                /\ dispatched' = dispatched
                /\ submitted' = submitted
                /\ received' = received]_vars

C9_Witness ==
    /\ variant = "poll"
    /\ pc = "monitor_done"
    /\ observed \in {"failed", "cancelled", "expired"}
    /\ Len(submitted) >= 1

\* C10: at most one batch of a run is without its submitted results, and a
\* new batch is taken up only when every earlier batch was answered in full.
C10_OnePendingBatch ==
    /\ \A k \in 1..(Len(received) - 1) : FullySubmitted(k)
    /\ Cardinality({k \in 1..Len(received) : ~FullySubmitted(k)}) <= 1

C10_Witness ==
    /\ variant = "stream"
    /\ Len(received) = 2
    /\ FullySubmitted(1)
    /\ ~FullySubmitted(2)
    /\ Len(stack) = 2

RECURSIVE PipeText(_)
PipeText(p) ==
    IF p = <<>> THEN <<>>
    ELSE (IF Head(p).kind = "chunk" THEN <<Head(p).text>> ELSE <<>>)
         \o PipeText(Tail(p))

\* C12: the text chunks written to the pipe, concatenated, are the suggestion
\* text accumulated by the handler.  Stated for a run with one handler (no
\* tool-call batch yet), where the accumulated text is that handler's
\* self.suggestion.
C12_PipeTextIsSuggestion ==
    (variant = "stream" /\ Len(stack) = 1 /\ received = <<>>)
        => PipeText(pipe) = stack[1].suggestion

(***************************************************************************)
(* More claims about the dispatcher (checked under SpecDispatch).          *)
(***************************************************************************)
\* the declared parameters of the four tools: options an array of strings,
\* path / file_path a string that is required
RequiredArg(req) ==
    CASE req.name = "list_directory" -> req.arguments.path
      [] req.name = "display_file_contents" -> req.arguments.file_path
      [] OTHER -> JStr(<<"-">>)

WellFormedCall(req) ==
    /\ req.name \in ALLOWED_FUNCTIONS
    /\ req.arguments.kind = "dict"
    /\ req.arguments.options.t = "absent" \/ IsStrList(req.arguments.options)
    /\ IsStr(RequiredArg(req)) /\ RequiredArg(req).v # <<>>

MalformedCall(req) ==
    /\ req.name \in ALLOWED_FUNCTIONS
    /\ \/ req.arguments.kind # "dict"
       \/ req.arguments.options.t \in {"num", "str"}
       \/ req.arguments.options.t = "list" /\ ~IsStrList(req.arguments.options)
       \/ ~IsStr(RequiredArg(req))

\* C13: in both adapters an allowed, well-formed call starts exactly one
\* child process; a disallowed or malformed call starts none.
C13_OneChildPerAllowedCall ==
    result.done =>
        /\ WellFormedCall(request) => result.ret.spawned = 1
        /\ (request.name \notin ALLOWED_FUNCTIONS \/ MalformedCall(request))
              => result.ret.spawned = 0

(***************************************************************************)
(* More claims about the run (checked under Spec).                         *)
(***************************************************************************)
FailedStatuses == {"failed", "cancelled", "expired"}

\* the controller has returned to its caller
ControllerReturned ==
    \/ variant = "stream" /\ pc = "exited" /\ runs > 0
    \/ variant = "poll" /\ pc = "monitor_done"

\* C14: when the run has ended failed, cancelled or expired, the controller
\* has reported that status to its caller by the time it returns, and it
\* has created no second run.
C14_FailureReportedNoRetry ==
    /\ runs <= 1
    /\ (ControllerReturned /\ status \in FailedStatuses) => reported = status

\* C15: a failed open of the FIFO or a failed write to it does not stop the
\* run.  The step in which a write fails leaves the controller where it is
\* (no exit, the same handlers); and with a failure behind it, the handler on
\* top still takes every event of its stream and still dispatches and
\* submits the batch it is working on.
C15_PipeFailureNotFatal ==
    /\ []((pipeFailed /\ pc # "stalled" /\ stack # <<>> /\ Top.kind = "handler"
           /\ status \notin Terminal)
            => CASE Top.hpc = "idle" ->
                      /\ ENABLED OnRunStatus
                      /\ WorkLeft > 0 => /\ ENABLED OnTextDelta
                                         /\ ENABLED OnMessageCompleted
                                         /\ ENABLED OnRequiresAction
                 [] Top.hpc = "dispatching" ->
                      ENABLED DispatchNext \/ ENABLED SubmitToolOutputs
                 [] OTHER -> FALSE)
    /\ [][(pipeFailed' /\ ~pipeFailed /\ nEvents' # nEvents)
             => /\ pc' = pc
                /\ exitCode' = exitCode
                /\ Len(stack') = Len(stack)
                /\ status' = status]_vars

C15_Witness ==
    /\ variant = "stream"
    /\ pipeFailed
    /\ pipe = <<>>
    /\ nEvents >= 2
    /\ Len(submitted) >= 1
    /\ status = "completed"
    /\ pc = "exited"
    /\ exitCode = exit_status

\* C16: the sink is never stalled by the pipe: no open of the FIFO fails to
\* return.  (A stalled open stays stalled when no consumer ever opens the
\* FIFO for reading.)
C16_SinkNeverStalls == pc # "stalled"

\* C17: no text chunk written to the pipe is the sentinel line: what the
\* consumer reads as the end marker is always the sink's sentinel.
C17_SentinelIsNotText ==
    \A k \in 1..Len(pipe) :
        pipe[k].kind = "chunk" => pipe[k].text # Sentinel.text

(***************************************************************************)
(* More claims about the dispatcher (checked under SpecDispatch).          *)
(***************************************************************************)
\* the enum of the options parameter in the declaration of a tool
OptionsEnum(name) ==
    CASE name = "list_directory" -> {<<"-la">>, <<"--help">>}
      [] name = "list_processes" -> {<<"aux">>, <<"--help">>}
      [] OTHER -> {}

\* the words of the executed commands after the command names
ExecutedArguments(exec) ==
    UNION {Range(Tail(exec.cmds[c])) : c \in 1..Len(exec.cmds)}

\* C18: every argument of a command executed for list_directory or
\* list_processes (called with a list of strings as options), the path
\* apart, is one of the tool's recognized flags.
C18_OptionsAreEnumMembers ==
    (result.done /\ result.ret.exec.ran /\ IsStrList(request.arguments.options)
     /\ request.name \in {"list_directory", "list_processes"})
        => ExecutedArguments(result.ret.exec)
              \subseteq (OptionsEnum(request.name)
                         \cup (IF request.name = "list_directory"
                               THEN {Get(request.arguments.path, JStr(<<".">>)).v}
                               ELSE {}))

\* C19: for a disallowed name n, the output text handed to the engine for the
\* result is exactly "Function 'n' is not allowed.", in both adapters.
\* Stated for the calls for which dispatch returned a result.
C19_NotAllowedMessageIsExact ==
    (result.done /\ request.name \notin ALLOWED_FUNCTIONS
     /\ result.ret.kind # "raise")
        => result.output = <<"Function '", request.name, "' is not allowed.">>

(***************************************************************************)
(* Claims about run() of ollama_debugger.py (checked under Spec).          *)
(***************************************************************************)
\* C20: the two-call variant sends at most two chat requests; the second is
\* sent exactly when the first response carried tool calls, and only when
\* every one of them has been dispatched once and has its 'tool' message in
\* the history; no second batch is ever taken up or dispatched.
C20_TwoRoundTrips ==
    variant = "ollama" =>
        /\ chats <= 2
        /\ Len(received) <= 1
        /\ Len(dispatched) <= (IF received = <<>> THEN 0 ELSE Len(received[1]))
        /\ chats = 2 =>
              /\ Len(received) = 1
              /\ Len(submitted) = 1
              /\ \A id \in Range(received[1]) : Count(dispatched, id) = 1
              /\ Len(submitted[1].ids) = Len(received[1])
        /\ pc \in {"o_done", "o_failed"} => (chats = 2 <=> received # <<>>)

C20_Witness ==
    /\ variant = "ollama"
    /\ pc = "o_done"
    /\ chats = 2
    /\ Len(received) = 1
    /\ Len(received[1]) >= 2
    /\ Len(submitted[1].ids) = Len(received[1])

(***************************************************************************)
(* Claims about failures in a run (checked under Spec).                    *)
(***************************************************************************)
\* the exceptions that handle_function_call lets out
ToolExceptions == {"JSONDecodeError", "AttributeError", "TypeError"}

\* C21: a disallowed tool, a malformed-argument call and a failed execution
\* never abort the run: no exception of a tool dispatch leaves the controller,
\* so the loop goes on to the submission of the whole batch.
C21_ToolFailureNeverAborts == raised \notin ToolExceptions

\* the controller has given up on the engine: a request or a stream failed
EngineFailed == raised = EngineError \/ pc = "o_failed"

\* C22: a failed request to the engine ends the run, with no retry.  In the
\* two-call variant a failed first request is followed by no dispatch and no
\* second request, a failed second request by no further request; in the
\* event-pushed variant a failed stream or submission is followed by no
\* further run, dispatch or submission.
C22_EngineFailureAbortsNoRetry ==
    /\ []((variant = "ollama" /\ pc = "o_failed" /\ received = <<>>)
            => (chats = 1 /\ dispatched = <<>> /\ submitted = <<>>))
    /\ []((variant = "stream" /\ raised = EngineError)
            => (pc = "exited" /\ exitCode = 1 /\ stack = <<>>))
    /\ [][EngineFailed
             => /\ chats' = chats
                /\ runs' = runs
                /\ dispatched' = dispatched
                /\ submitted' = submitted
                /\ received' = received]_vars

C22_Witness ==
    /\ variant = "stream"
    /\ raised = EngineError
    /\ Len(submitted) >= 1
    /\ runs = 1
    /\ pc = "exited"

(***************************************************************************)
(* The tool catalog sent to the engine (checked under SpecDispatch).       *)
(***************************************************************************)
\* one property of a parameters object: its name, its type and, for an array
\* of strings, the enum of its items
Property(name, type, enum) == [name |-> name, type |-> type, enum |-> enum]

\* one declared tool: its name, the properties and the required list
Tool(name, properties, required) ==
    [name |-> name, properties |-> properties, required |-> required]

\* the tools argument of client.beta.assistants.create in create_assistant
AssistantTools ==
    {Tool("list_directory",
          {Property("path", "string", {}),
           Property("options", "array", {"-la", "--help"})},
          {"path"}),
     Tool("print_working_directory", {}, {}),
     Tool("list_processes",
          {Property("options", "array", {"aux", "--help"})},
          {}),
     Tool("display_file_contents",
          {Property("file_path", "string", {})},
          {"file_path"})}

\* tools=list(ALLOWED_FUNCTIONS.values()) in run() of ollama_debugger.py
OllamaTools ==
    {Tool("list_directory",
          {Property("path", "string", {}),
           Property("options", "array", {"-la", "--help"})},
          {"path"}),
     Tool("print_working_directory", {}, {}),
     Tool("list_processes",
          {Property("options", "array", {"aux", "--help"})},
          {}),
     Tool("display_file_contents",
          {Property("file_path", "string", {})},
          {"file_path"})}

Advertised(a) == IF a = "openai" THEN AssistantTools ELSE OllamaTools

ToolNames(tools) == {t.name : t \in tools}

\* the dispatcher turned the call down by its name: it is not in the
\* allow-list, or no branch of the dispatcher is bound to it
Refused(r, name) ==
    /\ r.kind = "error"
    /\ r.error \in {<<"Function '", name, "' is not allowed.">>,
                    <<"Function '", name, "' is not implemented.">>}

\* C23: in each adapter a tool name is advertised to the engine exactly when
\* the dispatcher accepts it and has a binding for it; and the advertised
\* catalog (four names with their parameter schemas) is the same in both.
C23_AdvertisedIsAccepted ==
    /\ AssistantTools = OllamaTools
    /\ Cardinality(ToolNames(AssistantTools)) = 4
    /\ (result.done /\ result.ret.kind # "raise")
          => (request.name \in ToolNames(Advertised(adapter))
                <=> ~Refused(result.ret, request.name))

C23_Witness ==
    /\ result.done
    /\ adapter = "ollama"
    /\ request.name = "display_file_contents"
    /\ request.arguments.file_path = JStr(<<"a">>)
    /\ result.ret.kind = "ok"

(***************************************************************************)
(* Claims about what is on the pipe (checked under Spec).                  *)
(***************************************************************************)
\* the texts of the text deltas delivered, in arrival order
RECURSIVE DeltaTexts(_)
DeltaTexts(d) ==
    IF d = <<>> THEN <<>>
    ELSE (IF Head(d).event = "delta" THEN <<Head(d).text>> ELSE <<>>)
         \o DeltaTexts(Tail(d))

\* only the innermost handler is taking events: every call below it is
\* inside submit_tool_outputs, waiting for the continuation stream to end
OneAtATime == \A n \in 1..(Len(stack) - 1) : stack[n].hpc = "waiting"

\* C24: in the event-pushed variant events are handled one at a time, and the
\* chunks on the pipe are exactly the text deltas delivered over the initial
\* stream and the continuation streams, verbatim and in arrival order:
\* nothing reordered, altered or dropped.
C24_ChunksAreDeltasInOrder ==
    variant = "stream" =>
        /\ OneAtATime
        /\ PipeText(pipe) = DeltaTexts(delivered)

\* run() of ollama_debugger.py has returned with the engine's final answer
OllamaAnswered == variant = "ollama" /\ pc = "o_done"

\* C25: in the two-call variant too, the final answer of a run is on the pipe
\* as text, followed by the end sentinel as the last frame.
C25_TwoCallAnswerOnPipe ==
    OllamaAnswered =>
        /\ PipeText(pipe) # <<>>
        /\ NSentinels = 1
        /\ pipe[Len(pipe)].kind = "sentinel"

(***************************************************************************)
(* The path of the pipe (checked under SpecSink).                          *)
(***************************************************************************)
\* a StreamingEventHandler has been constructed: its __init__ has opened
\* FIFO_PATH for writing
SinkHasOpened == \E n \in 1..Len(stack) : stack[n].kind = "handler"

\* C26: whenever the sink has opened the pipe path for writing, a named pipe
\* is at that path: it was made, if absent, before the first open.
C26_PipeExistsWhenOpened == SinkHasOpened => fifoPath = "fifo"

(***************************************************************************)
(* The output text of an executed call (checked under SpecDispatch).       *)
(***************************************************************************)
\* what execute_shell_command can return for a command
Captured == {execute_shell_command(<<>>, env) : env \in ExecOutcomes}

\* C27: for an allowed call of llm_debugger.py whose command was executed,
\* the result is a normal one (no error) and its output text is the captured
\* stdout followed by the captured stderr, whatever the exit status: after a
\* non-zero exit or a failed spawn the text carries the failure text, and
\* the exit status is no part of it.
C27_OutputIsStdoutThenStderr ==
    (result.done /\ adapter = "openai" /\ result.ret.exec.ran)
        => /\ request.name \in ALLOWED_FUNCTIONS
           /\ result.ret.kind = "ok"
           /\ \E c \in Captured :
                 /\ result.ret.exit_status = c.exit_status
                 /\ result.output = c.stdout \o c.stderr
           /\ result.ret.exit_status # 0
                 => \E t \in {"<stderr>", "<exception>"} : t \in Range(result.output)
           /\ Range(result.output) \subseteq {"<stdout>", "<stderr>", "<exception>"}

C27_Witness ==
    /\ result.done
    /\ adapter = "openai"
    /\ request.name = "display_file_contents"
    /\ result.ret.exec.ran
    /\ result.ret.exit_status = 1
    /\ result.output = <<"<stdout>", "<stderr>">>

(***************************************************************************)
(* When the sentinel is written (checked under Spec).                      *)
(***************************************************************************)
\* the thread.message.completed events whose write went through
CompletedWritten ==
    Cardinality({k \in 1..Len(delivered) :
                    delivered[k].event = "completed" /\ delivered[k].written})

\* C28: the sentinels on the pipe are as many as the thread.message.completed
\* events delivered to streaming handlers (the first and the nested ones)
\* whose write succeeded.  No other event writes one: a run that reaches
\* completed, failed, cancelled or expired adds none to the count.
C28_SentinelPerCompletedMessage == NSentinels = CompletedWritten

C28_Witness ==
    /\ variant = "stream"
    /\ pc = "exited"
    /\ status \in {"failed", "completed"}
    /\ NSentinels = 2
    /\ Len(submitted) = 1
    /\ \E k \in 1..Len(delivered) :
          delivered[k].event = "completed" /\ ~delivered[k].written

(***************************************************************************)
(* A dispatch that raises (checked under Spec).                            *)
(***************************************************************************)
\* C29: when the dispatch of a request of a batch has raised in the
\* event-pushed variant, nothing was submitted for that batch, not even the
\* results collected before it, and the run is left in requires_action; the
\* earlier batches have their full result lists.
C29_NothingSubmittedAfterRaise ==
    (variant = "stream" /\ raised \in ToolExceptions)
        => /\ received # <<>>
           /\ \A j \in 1..Len(submitted) :
                 /\ submitted[j].batch # Len(received)
                 /\ Len(submitted[j].ids) = Len(received[submitted[j].batch])
           /\ Len(submitted) = Len(received) - 1
           /\ status = "requires_action"
           /\ pc = "exited"

C29_Witness ==
    /\ variant = "stream"
    /\ raised = "JSONDecodeError"
    /\ Len(received) = 1
    /\ Len(received[1]) = 2
    /\ Len(dispatched) = 2
    /\ submitted = <<>>
    /\ status = "requires_action"

(***************************************************************************)
(* main() and the command that succeeded (checked under Spec).             *)
(***************************************************************************)
\* main is past the test of line 660: it is creating the assistant, the
\* thread or the run, or the run has begun
EngineContacted ==
    \/ pc \in {"create_assistant", "create_thread", "initiate_run", "streaming",
               "stalled"}
    \/ runs > 0
    \/ status # "none"

\* C30: the engine is contacted and the pipe written only after the user's
\* command has exited non-zero.  After exit status 0 the process has ended
\* with no assistant, thread or run created, no tool dispatched and nothing
\* written to the pipe.
C30_OnlyAfterFailedCommand ==
    variant = "stream" =>
        /\ (EngineContacted \/ pipe # <<>> \/ dispatched # <<>> \/ stack # <<>>)
              => exit_status \notin {-1, 0}
        /\ exit_status = 0
              => /\ pc = "exited"
                 /\ exitCode = 0
                 /\ ~EngineContacted
                 /\ received = <<>>
                 /\ dispatched = <<>>
                 /\ spawned = 0
                 /\ pipe = <<>>
                 /\ delivered = <<>>

C30_Witness ==
    /\ variant = "stream"
    /\ exit_status = 0
    /\ pc = "exited"
    /\ exitCode = 0
    /\ pipe = <<>>

(***************************************************************************)
(* The order of the results (checked under Spec).                          *)
(***************************************************************************)
\* the call ids of the entries collected so far by a loop
CollectedIds(f) == [k \in 1..Len(f.tool_outputs) |-> f.tool_outputs[k].tool_call_id]

\* s is the beginning of t
IsPrefix(s, t) == Len(s) <= Len(t) /\ s = SubSeq(t, 1, Len(s))

\* C31: results keep the order of the requests.  With call ids (OpenAI) the
\* i-th entry collected, and the i-th entry of every submission, answers the
\* i-th tool call of its batch.  Without call ids (ollama) the 'tool' message
\* of the i-th call is appended as the i-th one: the step that dispatches a
\* call appends one message behind those already there, and 'tool' messages
\* exist only after the response that asked for them.
C31_ResultsKeepRequestOrder ==
    /\ [](\A j \in 1..Len(submitted) :
             adapter = "openai" => submitted[j].ids = received[submitted[j].batch])
    /\ [](\A n \in 1..Len(stack) :
             /\ (stack[n].kind \in {"handler", "monitor"} /\ stack[n].hpc = "dispatching")
                   => /\ IsPrefix(CollectedIds(stack[n]), stack[n].batch)
                      /\ Len(stack[n].tool_outputs) = stack[n].i - 1
             /\ stack[n].kind = "ollama"
                   => /\ Len(stack[n].tool_outputs) = stack[n].i - 1
                      /\ Len(dispatched) = stack[n].i - 1
                      /\ chats = 1 /\ Len(received) = 1)
    /\ [][(variant = "ollama" /\ dispatched' # dispatched)
             => /\ Len(stack') = 1
                /\ Len(stack'[1].tool_outputs) = Len(dispatched')
                /\ IsPrefix(Top.tool_outputs, stack'[1].tool_outputs)
                /\ dispatched' = Append(dispatched, Top.batch[Top.i])]_vars

C31_Witness ==
    /\ variant = "stream"
    /\ Len(received) = 1
    /\ Len(received[1]) = 3
    /\ Len(submitted) = 1
    /\ submitted[1].ids = received[1]

(***************************************************************************)
(* The nesting of the handlers (checked under Spec).                       *)
(***************************************************************************)
\* the event-pushed run is going on: no terminal status yet, no exit
StreamRunning == variant = "stream" /\ pc = "streaming" /\ status \notin Terminal

\* C32: in the event-pushed variant the handling of requires_action returns
\* only when the continuation stream its submission started has ended.
\* While that stream is consumed every outer handler waits inside
\* submit_tool_outputs and takes no event; batch k is handled by the handler
\* at depth k; and, while the run is going on, there is one handler more than
\* there are batches answered.
C32_ContinuationsAreNested ==
    /\ [](variant = "stream" =>
            /\ \A n \in 1..(Len(stack) - 1) :
                  stack[n].hpc = "waiting" /\ ~CanTakeEvent(stack[n])
            /\ \A n \in 1..Len(stack) :
                  stack[n].hpc \in {"dispatching", "stalled"}
                      => (n = Len(stack) /\ stack[n].batchNo = n /\ Len(received) = n)
            /\ Len(stack) <= Len(submitted) + 1
            /\ StreamRunning => Len(stack) = Len(submitted) + 1)
    /\ [][(variant = "stream" /\ Len(stack') < Len(stack) /\ stack' # <<>>)
             => /\ status \in Terminal
                /\ Top.hpc = "idle"
                /\ Len(stack') = Len(stack) - 1
                /\ stack'[Len(stack')].hpc = "idle"
                /\ \A n \in 1..(Len(stack') - 1) : stack'[n] = stack[n]]_vars

C32_Witness ==
    /\ StreamRunning
    /\ Len(stack) = 3
    /\ Len(submitted) = 2
    /\ Top.hpc = "idle"
    /\ delivered # <<>>

\* C33: monitor_run ends exactly when a retrieved status is completed, failed,
\* cancelled or expired; on every other status it polls again, so it is never
\* held up and never ends another way (a failure to reach the engine apart);
\* the final message is read only when the status is completed.
C33_MonitorEndsOnTerminalOnly ==
    variant = "poll" =>
        /\ pc = "monitor_done" <=> observed \in Terminal
        /\ pc = "crashed" => raised = EngineError
        /\ pc # "stalled"
        /\ finalRead => observed = "completed"

====
